---- MODULE Spec2Model ----
(***************************************************************************)
(* A model of analyze() in src/analyzers/session_analyzer.py: the          *)
(* extraction of corrected metrics from a conversation dump and the        *)
(* reconstruction of idle time from the sibling dumps of the same session. *)
(*                                                                         *)
(* Text is a sequence of atoms.  An atom is a string that stands for       *)
(* exactly its characters; the text is the concatenation of its atoms.     *)
(* The newline is an atom of its own (no other atom holds one), and every  *)
(* atom that holds a double quote starts with it.  A regular expression of *)
(* the source is modelled by an operator that finds the same matches on    *)
(* the atoms.  TLC cannot look inside a string, so what the source reads   *)
(* inside a word (its lower case, the terms it contains, whether it starts *)
(* or ends with a word character) is tabulated for the vocabulary below.   *)
(*                                                                         *)
(* Durations: the source divides seconds by 60 (minutes) and by 3600       *)
(* (hours).  The model keeps every duration in whole seconds, so           *)
(* "x minutes" is 60x seconds and "x hours" is 3600x seconds, exactly.     *)
(*                                                                         *)
(* Python's None is the empty tuple, and a present value x is <<x>>.       *)
(***************************************************************************)
EXTENDS Integers, Sequences, FiniteSets, TLC

(***************************************************************************)
(* The state: the files (never written), the clock (never read), the call  *)
(* of analyze in progress and the records the calls so far returned.       *)
(***************************************************************************)
VARIABLES
    file, dump_dir, runs, now,
    pc, idx, content, m, real_msgs, cats, user_turns, anomalies,
    error_categories, sibling_dumps, wall_clock_hrs, walk, ret

inputs == <<file, dump_dir, runs>>
frame == <<content, m, real_msgs, cats, user_turns, anomalies, error_categories,
           sibling_dumps, wall_clock_hrs, walk>>
vars == <<file, dump_dir, runs, now, pc, idx, content, m, real_msgs, cats, user_turns,
          anomalies, error_categories, sibling_dumps, wall_clock_hrs, walk, ret>>

None == <<>>
Some(x) == <<x>>

Min(S) == CHOOSE x \in S : \A y \in S : x <= y
Max(S) == CHOOSE x \in S : \A y \in S : x >= y

(* dict[k] = v on a Python dict held as a function *)
Put(d, k, v) == [x \in DOMAIN d \cup {k} |-> IF x = k THEN v ELSE d[x]]

(* Counter[k] += 1: a missing key counts from 0 *)
Incr(c, k) == Put(c, k, IF k \in DOMAIN c THEN c[k] + 1 ELSE 1)

(***************************************************************************)
(* The atoms with a structural role in a dump.                             *)
(***************************************************************************)
NL == "\n"
ESC_NL == "\\n"
SP == " "
USER == "## USER"
ASSISTANT == "## ASSISTANT"
LB == "["
RB == "]"
LC == "{"
RC == "}"
SEP == ", "
QUOTE == "\""
TYPE_TEXT == "\"type\": \"text\""
TEXT_OPEN == "\"text\": \""
TYPE_TOOL_RESULT == "\"type\": \"tool_result\""
TOOL_USE_ID == "\"tool_use_id\": \"toolu_01\""
CONTENT_OPEN == "\"content\": \""
IS_ERROR == "\"is_error\": true"
IDE_OPENED == "<ide_opened_file>"
(* what is left of an atom that a slice cuts through *)
CUT == "<cut>"

(* the atoms that hold a double quote; each starts with it *)
QuoteAtoms ==
    {QUOTE, TYPE_TEXT, TEXT_OPEN, TYPE_TOOL_RESULT, TOOL_USE_ID, CONTENT_OPEN, IS_ERROR}

HasQuote(a) == a \in QuoteAtoms

(* str.lower() / re.IGNORECASE, atom by atom *)
Lower(a) ==
    CASE a = "No" -> "no"
      [] a = "Fix" -> "fix"
      [] a = "Good" -> "good"
      [] a = "ERROR:" -> "error:"
      [] a = "ENOENT" -> "enoent"
      [] a = "Actually" -> "actually"
      [] OTHER -> a

LowerAll(s) == [k \in 1..Len(s) |-> Lower(s[k])]

(* <<a, w>>: the lower-case atom a holds the term w inside it, a # w *)
Embedded ==
    {<<"know", "no">>, <<"nope", "no">>, <<"not", "no">>, <<"cannot", "no">>,
     <<"incorrect", "correct">>, <<"already", "read">>}

(* w in a, for a lower-case atom a and a term w that is one atom *)
AtomHas(a, w) == a = w \/ <<a, w>> \in Embedded

(* the atoms whose first character is not a word character (\w) *)
NonWordStart ==
    {NL, ESC_NL, SP, SEP, LB, RB, LC, RC, ": ", "?", ".", IDE_OPENED, CUT, USER, ASSISTANT}
    \cup QuoteAtoms

(* the atoms whose last character is not a word character *)
NonWordEnd ==
    {NL, SP, SEP, LB, RB, LC, RC, ": ", "?", ".", "error:", "ERROR:", IDE_OPENED, CUT}
    \cup (QuoteAtoms \ {IS_ERROR})

(* Python len() of a text *)
RECURSIVE CharLen(_)
CharLen(s) == IF s = <<>> THEN 0 ELSE Len(Head(s)) + CharLen(Tail(s))

(* s[:n].  An atom the slice cuts through leaves CUT: no proper prefix of  *)
(* a vocabulary atom holds a term the source looks for.                    *)
RECURSIVE Slice(_, _)
Slice(s, n) ==
    IF s = <<>> \/ n <= 0 THEN <<>>
    ELSE IF Len(Head(s)) <= n
         THEN <<Head(s)>> \o Slice(Tail(s), n - Len(Head(s)))
         ELSE <<CUT>>

(* smallest index >= from holding atom a, or 0 *)
IndexFrom(s, from, a) ==
    LET I == {x \in from..Len(s) : s[x] = a}
    IN IF I = {} THEN 0 ELSE Min(I)

(* [^"]* from index from: the index just past the run of quote-free atoms *)
RunEnd(s, from) ==
    LET I == {x \in from..Len(s) : HasQuote(s[x])}
    IN IF I = {} THEN Len(s) + 1 ELSE Min(I)

(* [^\n]* from index from: the index just past the rest of the line *)
LineEnd(s, from) ==
    LET I == {x \in from..Len(s) : s[x] = NL}
    IN IF I = {} THEN Len(s) + 1 ELSE Min(I)

(* the literal lit (a sequence of atoms) matches s at index i: inside one  *)
(* atom when lit is one atom, atom for atom otherwise.  Case is kept; a    *)
(* search that ignores case is given LowerAll(s) and a lower-case lit.     *)
LitAt(s, i, lit) ==
    /\ i >= 1
    /\ i + Len(lit) - 1 <= Len(s)
    /\ IF Len(lit) = 1
       THEN AtomHas(s[i], lit[1])
       ELSE \A k \in 1..Len(lit) : s[i + k - 1] = lit[k]

(* lit in s *)
HasLit(s, lit) == \E i \in 1..Len(s) : LitAt(s, i, lit)

(* any(w in s for w in words) *)
AnyIn(words, s) == \E k \in 1..Len(words) : HasLit(s, words[k])

(***************************************************************************)
(* parse_timestamp.  A timestamp string is [fmt, tz, t]: the strptime      *)
(* format it is written in, the zone abbreviation it carries ("" for none) *)
(* and the naive local instant it spells, in seconds.                      *)
(***************************************************************************)
TZ_ABBREVIATIONS == {"PST", "PDT", "EST", "EDT", "CST", "CDT", "MST", "MDT", "UTC"}

FORMATS == <<"%a %b %d %H:%M:%S %Y", "%Y-%m-%d %H:%M:%S", "%Y-%m-%dT%H:%M:%S">>

(* re.sub(r'\s+(PST|...|UTC)\s*', ' ', ts_str).strip() *)
StripTz(ts_str) ==
    IF ts_str.tz \in TZ_ABBREVIATIONS THEN [ts_str EXCEPT !.tz = ""] ELSE ts_str

(* datetime.strptime(cleaned, fmt) succeeds *)
Strptime(cleaned, fmt) == cleaned.fmt = fmt /\ cleaned.tz = ""

(* parse_timestamp with the clock read when nothing parses *)
parse_timestamp_or_now(ts_str) ==
    LET cleaned == StripTz(ts_str)
        ok == {k \in 1..Len(FORMATS) : Strptime(cleaned, FORMATS[k])}
    IN IF ok = {} THEN Some(now) ELSE Some(cleaned.t)

parse_timestamp(ts_str) ==
    LET cleaned == StripTz(ts_str)
        ok == {k \in 1..Len(FORMATS) : Strptime(cleaned, FORMATS[k])}
    IN IF ok = {} THEN None ELSE Some(cleaned.t)

(* datetime.hour *)
Hour(t) == (t \div 3600) % 24

(***************************************************************************)
(* Raw counts and the corrected user messages (lines 113-123).             *)
(***************************************************************************)
(* len(re.findall(r'^## USER$', content, re.MULTILINE)) *)
RawUserSections(s) ==
    Cardinality({i \in 1..Len(s) :
        /\ s[i] = USER
        /\ (i = 1 \/ s[i - 1] = NL)
        /\ (i = Len(s) \/ s[i + 1] = NL)})

(* len(re.findall(r'^## ASSISTANT$', content, re.MULTILINE)) *)
RawAssistantSections(s) ==
    Cardinality({i \in 1..Len(s) :
        /\ s[i] = ASSISTANT
        /\ (i = 1 \/ s[i - 1] = NL)
        /\ (i = Len(s) \/ s[i + 1] = NL)})

(* len(re.findall(r'"tool_use_id":', content)) *)
RawToolCalls(s) == Cardinality({i \in 1..Len(s) : s[i] = TOOL_USE_ID})

(* r'## USER\n\[.*?"type": "text".*?"text": "([^"]+)"' with re.DOTALL,     *)
(* tried at index i: the index of the "text": " it ends on, or 0.  The     *)
(* lazy .*? runs over anything, newlines and later sections included; the  *)
(* group needs one character at least and its closing quote.               *)
MsgTextIdx(s, i) ==
    IF ~(i + 2 <= Len(s) /\ s[i] = USER /\ s[i + 1] = NL /\ s[i + 2] = LB)
    THEN 0
    ELSE LET j == IndexFrom(s, i + 3, TYPE_TEXT)
         IN IF j = 0 THEN 0
            ELSE LET K == {k \in (j + 1)..Len(s) :
                              /\ s[k] = TEXT_OPEN
                              /\ RunEnd(s, k + 1) > k + 1
                              /\ RunEnd(s, k + 1) <= Len(s)}
                 IN IF K = {} THEN 0 ELSE Min(K)

(* re.findall of that pattern from index from: the groups, left to right,  *)
(* each match starting after the one before it ends                        *)
RECURSIVE UserTextMessages(_, _)
UserTextMessages(s, from) ==
    LET S == {i \in from..Len(s) : MsgTextIdx(s, i) # 0}
    IN IF S = {} THEN <<>>
       ELSE LET k == MsgTextIdx(s, Min(S))
                e == RunEnd(s, k + 1)
            IN <<SubSeq(s, k + 1, e - 1)>> \o UserTextMessages(s, e + 1)

(* [msg for msg in user_text_messages if '<ide_opened_file>' not in msg] *)
RealMsgs(msgs) == SelectSeq(msgs, LAMBDA msg : ~HasLit(msg, <<IDE_OPENED>>))

(***************************************************************************)
(* The categories of a message (lines 126-138).                            *)
(***************************************************************************)
GUIDANCE_WORDS ==
    <<<<"read">>, <<"check">>, <<"try">>, <<"run">>, <<"create">>, <<"update">>,
      <<"fix">>, <<"implement">>>>

APPROVAL_WORDS ==
    <<<<"good">>, <<"looks", SP, "good">>, <<"perfect">>, <<"yes">>, <<"correct">>,
      <<"right">>>>

CORRECTION_CATEGORY_WORDS ==
    <<<<"no">>, <<"wrong">>, <<"incorrect">>, <<"stop">>, <<"don't">>, <<"shouldn't">>>>

CategoryKeys == {"guidance", "approval", "corrections", "questions", "other"}

(* Category with the approval words tried before the guidance words *)
CategoryApprovalFirst(msg) ==
    LET ml == LowerAll(msg)
    IN IF AnyIn(APPROVAL_WORDS, ml) THEN "approval"
       ELSE IF AnyIn(GUIDANCE_WORDS, ml) THEN "guidance"
       ELSE IF AnyIn(CORRECTION_CATEGORY_WORDS, ml) THEN "corrections"
       ELSE IF HasLit(msg, <<"?">>) THEN "questions"
       ELSE "other"

(* the branch of the if/elif chain that msg takes *)
Category(msg) ==
    LET ml == LowerAll(msg)
    IN IF AnyIn(GUIDANCE_WORDS, ml) THEN "guidance"
       ELSE IF AnyIn(APPROVAL_WORDS, ml) THEN "approval"
       ELSE IF AnyIn(CORRECTION_CATEGORY_WORDS, ml) THEN "corrections"
       ELSE IF HasLit(msg, <<"?">>) THEN "questions"
       ELSE "other"

(***************************************************************************)
(* Turns (lines 143-151).                                                  *)
(***************************************************************************)
(* content.split('## USER\n') *)
RECURSIVE SplitUser(_)
SplitUser(s) ==
    LET S == {i \in 1..(Len(s) - 1) : s[i] = USER /\ s[i + 1] = NL}
    IN IF S = {} THEN <<s>>
       ELSE <<SubSeq(s, 1, Min(S) - 1)>> \o SplitUser(SubSeq(s, Min(S) + 2, Len(s)))

(* line 150, the search for the first "text": "..." field of the turn      *)
(* (any run of quote-free characters, closed by a quote): group(1), or the *)
(* empty string without a match                                            *)
UserText(turn) ==
    LET K == {k \in 1..Len(turn) : turn[k] = TEXT_OPEN /\ RunEnd(turn, k + 1) <= Len(turn)}
    IN IF K = {} THEN <<>> ELSE SubSeq(turn, Min(K) + 1, RunEnd(turn, Min(K) + 1) - 1)

(***************************************************************************)
(* Tool errors (lines 45-57, 153-169).  A pattern is head, or head.*tail   *)
(* where .* stays on one line; every pattern is searched ignoring case.    *)
(***************************************************************************)
TOOL_ERROR_PATTERNS ==
    << [head |-> <<"psql", ": ", "error:">>, tail |-> <<>>],
       [head |-> <<"enoent">>, tail |-> <<>>],
       [head |-> <<"cannot", SP, "find">>, tail |-> <<>>],
       [head |-> <<"permission", SP, "denied">>, tail |-> <<>>],
       [head |-> <<"connection">>, tail |-> <<"failed">>],
       [head |-> <<"error:">>, tail |-> <<NL>>],
       [head |-> <<"syntaxerror">>, tail |-> <<>>],
       [head |-> <<"typeerror">>, tail |-> <<>>],
       [head |-> <<"migration", SP, "failed">>, tail |-> <<>>],
       [head |-> <<"command", SP, "not", SP, "found">>, tail |-> <<>>],
       [head |-> <<"no", SP, "such", SP, "file">>, tail |-> <<>>] >>

(* where the tail of pat can start when its head matches at i: after the   *)
(* head, with no newline in between                                        *)
TailStarts(ls, i, pat) ==
    {j \in (i + Len(pat.head))..Len(ls) :
        /\ LitAt(ls, j, pat.tail)
        /\ \A x \in (i + Len(pat.head))..(j - 1) : ls[x] # NL}

(* pat matches the lower-case text ls at index i *)
PatAt(ls, i, pat) ==
    /\ LitAt(ls, i, pat.head)
    /\ (pat.tail # <<>> => TailStarts(ls, i, pat) # {})

(* re.search(pat, turn, re.IGNORECASE): the leftmost start, or 0 *)
PatSearch(turn, pat) ==
    LET ls == LowerAll(turn)
        I == {i \in 1..Len(turn) : PatAt(ls, i, pat)}
    IN IF I = {} THEN 0 ELSE Min(I)

(* any(re.search(pat, turn, re.IGNORECASE) for pat in TOOL_ERROR_PATTERNS) *)
ToolErrorMatch(turn) ==
    \E p \in 1..Len(TOOL_ERROR_PATTERNS) : PatSearch(turn, TOOL_ERROR_PATTERNS[p]) # 0

(* '"is_error": true' in turn *)
HasToolError(turn) == \E k \in 1..Len(turn) : turn[k] = IS_ERROR

(* re.search(f'({pat}[^\\n]{{0,100}})', turn, re.IGNORECASE).group(1) for a *)
(* pattern that matches: the greedy match and up to 100 characters of the   *)
(* line that follows it                                                     *)
PatSnippet(turn, pat) ==
    LET ls == LowerAll(turn)
        i == PatSearch(turn, pat)
        e == IF pat.tail = <<>> THEN i + Len(pat.head) - 1
             ELSE Max(TailStarts(ls, i, pat)) + Len(pat.tail) - 1
    IN SubSeq(turn, i, e) \o Slice(SubSeq(turn, e + 1, LineEnd(turn, e + 1) - 1), 100)

(* the for loop of lines 163-167: the first pattern, in table order, that matches *)
FirstPatSnippet(turn) ==
    LET P == {p \in 1..Len(TOOL_ERROR_PATTERNS) : PatSearch(turn, TOOL_ERROR_PATTERNS[p]) # 0}
    IN IF P = {} THEN <<>> ELSE PatSnippet(turn, TOOL_ERROR_PATTERNS[Min(P)])

(* re.search(r'"is_error": true.*?"content": "([^"]{0,200})', turn, re.DOTALL): *)
(* group(1) when the flag is followed, anywhere later in the turn, by a content *)
(* field; None otherwise                                                        *)
ErrorContent(turn) ==
    LET i == IndexFrom(turn, 1, IS_ERROR)
        j == IF i = 0 THEN 0 ELSE IndexFrom(turn, i + 1, CONTENT_OPEN)
    IN IF j = 0 THEN None
       ELSE Some(Slice(SubSeq(turn, j + 1, RunEnd(turn, j + 1) - 1), 200))

(* .replace('\\n', ' ') *)
ReplaceEscNl(s) == [k \in 1..Len(s) |-> IF s[k] = ESC_NL THEN SP ELSE s[k]]

(* lines 157-167: the snippet recorded for a tool-error turn *)
Snippet(turn) ==
    IF HasToolError(turn)
    THEN IF ErrorContent(turn) # None
         THEN Slice(ReplaceEscNl(ErrorContent(turn)[1]), 100)
         ELSE <<>>
    ELSE FirstPatSnippet(turn)

(***************************************************************************)
(* Corrections and clarifications (lines 172-184): \b-delimited words,     *)
(* searched in the turn's quoted text ignoring case.                       *)
(***************************************************************************)
CORRECTION_WORDS ==
    <<<<"no">>, <<"nope">>, <<"wrong">>, <<"incorrect">>,
      <<"that's", SP, "not", SP, "right">>, <<"stop">>, <<"revert">>, <<"undo">>>>

NEGATED_MODALS ==
    <<<<"don't">>, <<"do", SP, "not">>, <<"shouldn't">>, <<"should", SP, "not">>>>

ACTION_VERBS == <<<<"do">>, <<"use">>, <<"try">>>>

CLARIFICATION_WORDS ==
    <<<<"actually">>, <<"instead">>, <<"what", SP, "i", SP, "meant">>,
      <<"should", SP, "be">>, <<"to", SP, "clarify">>>>

INSTEAD == <<<<"instead">>>>

(* \b(w)\b matches the lower-case text t at index i *)
WordAt(t, i, w) ==
    /\ i >= 1
    /\ i + Len(w) - 1 <= Len(t)
    /\ \A k \in 1..Len(w) : t[i + k - 1] = w[k]
    /\ (i = 1 \/ t[i - 1] \in NonWordEnd)
    /\ (i + Len(w) - 1 = Len(t) \/ t[i + Len(w)] \in NonWordStart)

(* re.search(r'\b(w1|w2|...)\b', text, re.IGNORECASE) *)
AnyWord(text, words) ==
    LET t == LowerAll(text)
    IN \E k \in 1..Len(words) : \E i \in 1..Len(t) : WordAt(t, i, words[k])

(* re.search(r'\b(a1|...)\b.*\b(b1|...)\b', text, re.IGNORECASE): .* stays *)
(* on one line                                                             *)
WordThenWord(text, as, bs) ==
    LET t == LowerAll(text)
    IN \E a \in 1..Len(as) : \E b \in 1..Len(bs) :
         \E i \in 1..Len(t) : \E j \in 1..Len(t) :
            /\ WordAt(t, i, as[a])
            /\ WordAt(t, j, bs[b])
            /\ j >= i + Len(as[a])
            /\ \A x \in (i + Len(as[a]))..(j - 1) : t[x] # NL

(* any(re.search(p, user_text, re.IGNORECASE) for p in correction_pats) *)
IsCorrection(user_text) ==
    \/ AnyWord(user_text, CORRECTION_WORDS)
    \/ WordThenWord(user_text, NEGATED_MODALS, ACTION_VERBS)

(* any(re.search(p, user_text, re.IGNORECASE) for p in clarification_pats) *)
IsClarification(user_text) ==
    \/ AnyWord(user_text, CLARIFICATION_WORDS)
    \/ WordThenWord(user_text, ACTION_VERBS, INSTEAD)

(***************************************************************************)
(* The category of a tool error (lines 195-205).                           *)
(***************************************************************************)
ErrorCategory(error) ==
    LET txt == LowerAll(error)
    IN IF HasLit(txt, <<"psql">>) \/ HasLit(txt, <<"connection">>)
       THEN "Database Connection"
       ELSE IF HasLit(txt, <<"error:">>) \/ HasLit(txt, <<"failed">>)
       THEN "SQL/Migration"
       ELSE IF HasLit(txt, <<"enoent">>) \/ HasLit(txt, <<"cannot", SP, "find">>)
       THEN "File Not Found"
       ELSE IF HasLit(txt, <<"permission">>)
       THEN "Permission"
       ELSE "Other Technical"

(***************************************************************************)
(* Sibling dumps and the idle-time walk (lines 229-275).                   *)
(***************************************************************************)
GAP_MINUTES == 60
LONG_BREAK_MINUTES == 120
OVERNIGHT_MINUTES == 360

(* m['session_id']: sid.group(1)[:8], or 'unknown' *)
ShortId(session) == IF session # None THEN Slice(session[1], 8) ELSE <<"unknown">>

(* lines 235-240: the sibling's header names the session of the dump under *)
(* analysis and a time that parses                                         *)
Qualifies(sibling, session_id) ==
    /\ sibling.session # None
    /\ sibling.dumped # None
    /\ Slice(sibling.session[1], 8) = session_id
    /\ parse_timestamp(sibling.dumped[1]) # None

(* lines 241-244: the entry appended for a sibling that qualifies *)
Entry(sibling) ==
    [time |-> parse_timestamp(sibling.dumped[1])[1], size_kb |-> sibling.st_size \div 1024]

(* list.sort(key=lambda x: x['time']): stable, entries of equal time keep  *)
(* their order                                                             *)
RECURSIVE SortByTime(_)
SortByTime(s) ==
    IF s = <<>> THEN <<>>
    ELSE LET x == s[Len(s)]
             front == SortByTime(SubSeq(s, 1, Len(s) - 1))
             n == Cardinality({k \in 1..Len(front) : front[k].time <= x.time})
         IN SubSeq(front, 1, n) \o <<x>> \o SubSeq(front, n + 1, Len(front))

(* GapType with the bounds of a class on the wrong side *)
GapTypeInclusive(gap_seconds) ==
    IF gap_seconds >= OVERNIGHT_MINUTES * 60 THEN "OVERNIGHT"
    ELSE IF gap_seconds >= LONG_BREAK_MINUTES * 60 THEN "LONG BREAK"
    ELSE "BREAK"

(* line 261 *)
GapType(gap_seconds) ==
    IF gap_seconds > OVERNIGHT_MINUTES * 60 THEN "OVERNIGHT"
    ELSE IF gap_seconds > LONG_BREAK_MINUTES * 60 THEN "LONG BREAK"
    ELSE "BREAK"

(* lines 251-255: the walk's variables before the loop *)
WalkStart(first) ==
    [active_minutes |-> 0, gap_minutes |-> 0, gaps_found |-> <<>>,
     period_start |-> first.time, last_time |-> first.time]

(* WalkStep with the active period closed at the later snapshot *)
WalkStepThroughEntry(w, entry) ==
    LET gap_min == entry.time - w.last_time
    IN IF gap_min > GAP_MINUTES * 60
       THEN [active_minutes |-> w.active_minutes + (entry.time - w.period_start),
             gap_minutes |-> w.gap_minutes + gap_min,
             gaps_found |-> Append(w.gaps_found,
                 [start |-> w.last_time, end |-> entry.time,
                  minutes |-> gap_min, type |-> GapType(gap_min)]),
             period_start |-> entry.time,
             last_time |-> entry.time]
       ELSE [w EXCEPT !.last_time = entry.time]

(* lines 258-268: one iteration of the loop over sibling_dumps[1:] *)
WalkStep(w, entry) ==
    LET gap_min == entry.time - w.last_time
    IN IF gap_min > GAP_MINUTES * 60
       THEN [active_minutes |-> w.active_minutes + (w.last_time - w.period_start),
             gap_minutes |-> w.gap_minutes + gap_min,
             gaps_found |-> Append(w.gaps_found,
                 [start |-> w.last_time, end |-> entry.time,
                  minutes |-> gap_min, type |-> GapType(gap_min)]),
             period_start |-> entry.time,
             last_time |-> entry.time]
       ELSE [w EXCEPT !.last_time = entry.time]

(* line 275: a quotient, kept as numerator and denominator; 0 is 0/1 *)
GrowthRatio(dumps) ==
    IF dumps[1].size_kb > 0
    THEN [num |-> dumps[Len(dumps)].size_kb, den |-> dumps[1].size_kb]
    ELSE [num |-> 0, den |-> 1]

(* lines 269-275 *)
TimelineMetrics(mm, dumps, wall, w) ==
    LET active == w.active_minutes + (w.last_time - w.period_start)
    IN Put(Put(Put(Put(Put(mm,
         "wall_clock_hours", Some(wall)),
         "active_hours", Some(active)),
         "gap_hours", Some(w.gap_minutes)),
         "gaps", w.gaps_found),
         "growth_ratio", Some(GrowthRatio(dumps)))

(* NoTimelineMetrics with zeros for the missing values *)
NoTimelineZeros(mm) ==
    Put(Put(Put(Put(Put(mm,
         "wall_clock_hours", Some(0)),
         "active_hours", Some(0)),
         "gap_hours", Some(0)),
         "gaps", <<>>),
         "growth_ratio", Some([num |-> 0, den |-> 1]))

(* lines 277-281 *)
NoTimelineMetrics(mm) ==
    Put(Put(Put(Put(Put(mm,
         "wall_clock_hours", None),
         "active_hours", None),
         "gap_hours", None),
         "gaps", <<>>),
         "growth_ratio", None)

(* lines 220-226 *)
OvernightHeuristic(dumped, file_size_kb) ==
    /\ dumped # None
    /\ parse_timestamp(dumped[1]) # None
    /\ (Hour(parse_timestamp(dumped[1])[1]) >= 20 \/ Hour(parse_timestamp(dumped[1])[1]) <= 5)
    /\ file_size_kb > 500

(***************************************************************************)
(* One turn of the loop of lines 149-184, on the three lists it appends to *)
(* (TurnStep), after the same turn without the continue of line 169.       *)
(***************************************************************************)
TurnStepFallsThrough(a, i, turn) ==
    LET user_text == UserText(turn)
    IN [a EXCEPT
          !.tool_errors =
              IF HasToolError(turn) \/ ToolErrorMatch(turn)
              THEN Append(@, [turn |-> i, error |-> Snippet(turn)]) ELSE @,
          !.user_corrections =
              IF IsCorrection(user_text)
              THEN Append(@, [turn |-> i, text |-> Slice(user_text, 150)]) ELSE @,
          !.user_clarifications =
              IF IsClarification(user_text)
              THEN Append(@, [turn |-> i, text |-> Slice(user_text, 150)]) ELSE @]

TurnStep(a, i, turn) ==
    LET user_text == UserText(turn)
    IN IF HasToolError(turn) \/ ToolErrorMatch(turn)
       THEN [a EXCEPT !.tool_errors = Append(@, [turn |-> i, error |-> Snippet(turn)])]
       ELSE [a EXCEPT
               !.user_corrections =
                   IF IsCorrection(user_text)
                   THEN Append(@, [turn |-> i, text |-> Slice(user_text, 150)]) ELSE @,
               !.user_clarifications =
                   IF IsClarification(user_text)
                   THEN Append(@, [turn |-> i, text |-> Slice(user_text, 150)]) ELSE @]

(* Count with an if for every elif: each category whose words msg holds *)
CountEveryMatch(c, msg) ==
    LET ml == LowerAll(msg)
        hit == {k \in CategoryKeys :
                   \/ k = "guidance" /\ AnyIn(GUIDANCE_WORDS, ml)
                   \/ k = "approval" /\ AnyIn(APPROVAL_WORDS, ml)
                   \/ k = "corrections" /\ AnyIn(CORRECTION_CATEGORY_WORDS, ml)
                   \/ k = "questions" /\ HasLit(msg, <<"?">>)}
    IN IF hit = {} THEN [c EXCEPT !["other"] = @ + 1]
       ELSE [k \in CategoryKeys |-> IF k \in hit THEN c[k] + 1 ELSE c[k]]

(* lines 128-138: the counts after msg *)
Count(c, msg) == [c EXCEPT ![Category(msg)] = @ + 1]

(***************************************************************************)
(* The dumps the model analyses.                                           *)
(***************************************************************************)
MaxTurns == 2
MaxSiblings == 3
MaxRuns == 2

(* {"type": "text", "text": "..."} *)
TextFragment(text) == <<LC, TYPE_TEXT, SEP, TEXT_OPEN>> \o text \o <<QUOTE, RC>>

(* {"tool_use_id": "toolu_01", "type": "tool_result", "content": "..."} *)
ToolResult(c) ==
    <<LC, TOOL_USE_ID, SEP, TYPE_TOOL_RESULT, SEP, CONTENT_OPEN>> \o c \o <<QUOTE, RC>>

(* a failed tool result, the flag before the content field *)
ToolFailure(c) ==
    <<LC, TOOL_USE_ID, SEP, TYPE_TOOL_RESULT, SEP, IS_ERROR, SEP, CONTENT_OPEN>>
    \o c \o <<QUOTE, RC>>

(* a failed tool result, the flag after the content field *)
ToolFailureFlagLast(c) ==
    <<LC, TOOL_USE_ID, SEP, TYPE_TOOL_RESULT, SEP, CONTENT_OPEN>>
    \o c \o <<QUOTE, SEP, IS_ERROR, RC>>

UserSection(fragments) == <<USER, NL, LB>> \o fragments \o <<RB, NL>>

AssistantSection(fragments) == <<ASSISTANT, NL, LB>> \o fragments \o <<RB, NL>>

PsqlError == <<"psql", ": ", "error:", SP, "connection", SP, "refused">>

(* what a human-turn boundary and the text up to the next one can look like *)
TurnShapes ==
    << UserSection(TextFragment(<<"Fix", SP, "this">>))
           \o AssistantSection(TextFragment(<<"Done">>)),
       UserSection(TextFragment(<<"looks", SP, "good", SEP, "try", SP, "it">>)),
       UserSection(TextFragment(<<"Good">>)),
       UserSection(TextFragment(
           <<"No", SEP, "actually", SP, "use", SP, "it", SP, "instead">>)),
       UserSection(TextFragment(<<"why", "?">>)),
       UserSection(TextFragment(<<"i", SP, "know">>)),
       UserSection(TextFragment(<<"wrong">>))
           \o AssistantSection(TextFragment(<<"ENOENT", SP, "again">>)),
       UserSection(ToolResult(<<"ok">>)) \o AssistantSection(TextFragment(<<"Done">>)),
       UserSection(ToolResult(<<"ok">>)),
       UserSection(ToolFailure(PsqlError)),
       UserSection(ToolFailureFlagLast(PsqlError)),
       UserSection(TextFragment(<<"hmm">>) \o <<SEP>>
           \o TextFragment(<<IDE_OPENED, "a.py">>)),
       UserSection(TextFragment(<<IDE_OPENED, "a.py">>)),
       <<"#">> \o UserSection(TextFragment(<<"stop">>)) >>

Preamble == <<"conversation dump", NL>>

RECURSIVE Concat(_)
Concat(ss) == IF ss = <<>> THEN <<>> ELSE Head(ss) \o Concat(Tail(ss))

(* the texts of up to MaxTurns turns *)
Texts ==
    {Preamble \o Concat([k \in 1..Len(pick) |-> TurnShapes[pick[k]]]) :
        pick \in UNION {[1..n -> 1..Len(TurnShapes)] : n \in 0..MaxTurns}}

SESSION == <<"abc12345", "-6789">>

(* Mon 09:00:00, in seconds from the start of the week *)
T0 == 9 * 3600

Stamp(fmt, tz, t) == [fmt |-> fmt, tz |-> tz, t |-> t]

File(session, dumped, st_size, text) ==
    [session |-> session, dumped |-> dumped, st_size |-> st_size, text |-> text]

Sibling(session, dumped, st_size) ==
    [session |-> session, dumped |-> dumped, st_size |-> st_size]

(* the conversation.md files a dump directory can hold, as the header and  *)
(* the size of each are read                                               *)
Siblings ==
    { Sibling(Some(SESSION), Some(Stamp(FORMATS[1], "PST", T0)), 2048),
      Sibling(Some(SESSION), Some(Stamp(FORMATS[1], "PST", T0)), 512),
      Sibling(Some(SESSION), Some(Stamp(FORMATS[2], "UTC", T0 + 3600)), 3072),
      Sibling(Some(<<"abc12345", "-ffff">>), Some(Stamp(FORMATS[3], "", T0 + 7200)), 4096),
      Sibling(Some(SESSION), Some(Stamp(FORMATS[1], "PST", T0 + 7201)), 5120),
      Sibling(Some(SESSION), Some(Stamp(FORMATS[1], "PST", T0 + 28801)), 8192),
      Sibling(Some(<<"ffff0000", "-1111">>), Some(Stamp(FORMATS[1], "PST", T0 + 3600)), 1024),
      Sibling(Some(SESSION), Some(Stamp(FORMATS[2], "IST", T0 + 3600)), 1024),
      Sibling(Some(SESSION), Some(Stamp("%d/%m/%Y %H:%M", "", T0 + 7200)), 1024),
      Sibling(None, Some(Stamp(FORMATS[1], "PST", T0 + 3600)), 1024),
      Sibling(Some(SESSION), None, 1024) }

(* the listings of up to MaxSiblings files, in path order *)
Listings == UNION {[1..n -> Siblings] : n \in 0..MaxSiblings}

FewTexts ==
    { Preamble \o TurnShapes[1] \o TurnShapes[10],
      Preamble \o TurnShapes[4] \o TurnShapes[7] }

FewListings ==
    { << Sibling(Some(SESSION), Some(Stamp(FORMATS[1], "PST", T0 + 7201)), 5120),
         Sibling(Some(SESSION), Some(Stamp(FORMATS[2], "IST", T0 + 3600)), 1024),
         Sibling(Some(SESSION), Some(Stamp(FORMATS[1], "PST", T0)), 2048),
         Sibling(Some(SESSION), Some(Stamp(FORMATS[2], "UTC", T0 + 3600)), 3072) >>,
      << Sibling(Some(SESSION), Some(Stamp(FORMATS[1], "PST", T0)), 2048),
         Sibling(Some(SESSION), Some(Stamp(FORMATS[2], "IST", T0 + 3600)), 1024) >> }

EmptyDict == [x \in {} |-> 0]

NoAnomalies == [tool_errors |-> <<>>, user_corrections |-> <<>>, user_clarifications |-> <<>>]

(* no call in progress: the locals of analyze do not exist *)
NoFrame ==
    /\ pc = "idle"
    /\ idx = 0
    /\ content = <<>>
    /\ m = EmptyDict
    /\ real_msgs = <<>>
    /\ cats = EmptyDict
    /\ user_turns = <<>>
    /\ anomalies = NoAnomalies
    /\ error_categories = EmptyDict
    /\ sibling_dumps = <<>>
    /\ wall_clock_hrs = 0
    /\ walk = WalkStart([time |-> 0])

InitWith(files, listings, n) ==
    /\ file \in files
    /\ dump_dir \in listings
    /\ runs = n
    /\ now = T0
    /\ ret = <<>>
    /\ NoFrame

(* every text of up to MaxTurns turns beside a listing too short for a    *)
(* timeline, and a few texts beside every one of the few listings          *)
Init ==
    \/ InitWith({File(Some(SESSION), Some(Stamp(FORMATS[1], "PST", T0)), 4096, t) :
                    t \in Texts},
                {l \in FewListings : Len(l) = 2}, 1)
    \/ InitWith({File(Some(SESSION), Some(Stamp(FORMATS[1], "PST", T0)), 4096, t) :
                    t \in FewTexts},
                FewListings, 1)

(* every listing of up to MaxSiblings files beside one dump, and a dump   *)
(* without a session id beside two listings                               *)
InitTimeline ==
    \/ InitWith({File(Some(SESSION), Some(Stamp(FORMATS[1], "PST", T0 + 50400)), 614400,
                      Preamble \o TurnShapes[7])},
                Listings, 1)
    \/ InitWith({File(None, None, 4096, Preamble \o TurnShapes[4] \o TurnShapes[10])},
                FewListings, 1)

(* a few dumps and listings, each analysed MaxRuns times *)
InitTwice ==
    InitWith({File(s, d, 614400, t) :
                 s \in {Some(SESSION), None},
                 d \in {Some(Stamp(FORMATS[1], "PST", T0 + 50400)),
                        Some(Stamp(FORMATS[2], "IST", T0))},
                 t \in FewTexts},
             FewListings, MaxRuns)

(* lines 94-110 *)
Analyze ==
    /\ pc = "idle"
    /\ Len(ret) < runs
    /\ content' = file.text
    /\ m' = Put(Put(Put(Put(EmptyDict,
             "session_id", ShortId(file.session)),
             "timestamp", file.dumped),
             "file_size_kb", file.st_size \div 1024),
             "lines", Cardinality({i \in 1..Len(file.text) : file.text[i] = NL})
                      + Len(file.session) + Len(file.dumped) + 1)
    /\ pc' = "raw"
    /\ UNCHANGED <<inputs, now, idx, real_msgs, cats, user_turns, anomalies,
                   error_categories, sibling_dumps, wall_clock_hrs, walk, ret>>

(* lines 113-115 *)
RawCounts ==
    /\ pc = "raw"
    /\ m' = Put(Put(Put(m,
             "raw_user_sections", RawUserSections(content)),
             "raw_assistant_sections", RawAssistantSections(content)),
             "raw_tool_calls", RawToolCalls(content))
    /\ pc' = "msgs"
    /\ UNCHANGED <<inputs, now, idx, content, real_msgs, cats, user_turns, anomalies,
                   error_categories, sibling_dumps, wall_clock_hrs, walk, ret>>

(* lines 120-126 *)
ExtractMessages ==
    /\ pc = "msgs"
    /\ real_msgs' = RealMsgs(UserTextMessages(content, 1))
    /\ m' = Put(m, "real_user_msgs", Len(real_msgs'))
    /\ cats' = [k \in CategoryKeys |-> 0]
    /\ idx' = 1
    /\ pc' = "cats"
    /\ UNCHANGED <<inputs, now, content, user_turns, anomalies,
                   error_categories, sibling_dumps, wall_clock_hrs, walk, ret>>

(* lines 127-138, one message *)
CategorizeMessage ==
    /\ pc = "cats"
    /\ idx <= Len(real_msgs)
    /\ cats' = Count(cats, real_msgs[idx])
    /\ idx' = idx + 1
    /\ UNCHANGED <<inputs, now, pc, content, m, real_msgs, user_turns, anomalies,
                   error_categories, sibling_dumps, wall_clock_hrs, walk, ret>>

(* lines 139-147 *)
SplitTurns ==
    /\ pc = "cats"
    /\ idx > Len(real_msgs)
    /\ m' = Put(Put(m, "msg_categories", cats), "user_messages", real_msgs)
    /\ user_turns' = SplitUser(content)
    /\ anomalies' = NoAnomalies
    /\ idx' = 1
    /\ pc' = "turns"
    /\ UNCHANGED <<inputs, now, content, real_msgs, cats,
                   error_categories, sibling_dumps, wall_clock_hrs, walk, ret>>

(* lines 149-184, one turn of user_turns[1:], numbered from 1 *)
DisambiguateTurn ==
    /\ pc = "turns"
    /\ idx + 1 <= Len(user_turns)
    /\ anomalies' = TurnStep(anomalies, idx, user_turns[idx + 1])
    /\ idx' = idx + 1
    /\ UNCHANGED <<inputs, now, pc, content, m, real_msgs, cats, user_turns,
                   error_categories, sibling_dumps, wall_clock_hrs, walk, ret>>

(* lines 186-193 *)
StoreAnomalies ==
    /\ pc = "turns"
    /\ idx + 1 > Len(user_turns)
    /\ m' = Put(Put(Put(Put(Put(m,
             "tool_errors", Len(anomalies.tool_errors)),
             "tool_error_details", anomalies.tool_errors),
             "user_corrections", Len(anomalies.user_corrections)),
             "user_correction_details", anomalies.user_corrections),
             "user_clarifications", Len(anomalies.user_clarifications))
    /\ error_categories' = EmptyDict
    /\ idx' = 1
    /\ pc' = "errors"
    /\ UNCHANGED <<inputs, now, content, real_msgs, cats, user_turns, anomalies,
                   sibling_dumps, wall_clock_hrs, walk, ret>>

(* lines 194-205, one tool error *)
CategorizeError ==
    /\ pc = "errors"
    /\ idx <= Len(anomalies.tool_errors)
    /\ error_categories' =
           Incr(error_categories, ErrorCategory(anomalies.tool_errors[idx].error))
    /\ idx' = idx + 1
    /\ UNCHANGED <<inputs, now, pc, content, m, real_msgs, cats, user_turns, anomalies,
                   sibling_dumps, wall_clock_hrs, walk, ret>>

(* lines 206-231 *)
Heuristics ==
    /\ pc = "errors"
    /\ idx > Len(anomalies.tool_errors)
    /\ m' = Put(Put(m,
             "error_categories", error_categories),
             "overnight_heuristic", OvernightHeuristic(file.dumped, m["file_size_kb"]))
    /\ sibling_dumps' = <<>>
    /\ idx' = 1
    /\ pc' = "siblings"
    /\ UNCHANGED <<inputs, now, content, real_msgs, cats, user_turns, anomalies,
                   error_categories, wall_clock_hrs, walk, ret>>

(* lines 232-244, one file of the listing *)
ScanSibling ==
    /\ pc = "siblings"
    /\ idx <= Len(dump_dir)
    /\ sibling_dumps' =
           IF Qualifies(dump_dir[idx], m["session_id"])
           THEN Append(sibling_dumps, Entry(dump_dir[idx]))
           ELSE sibling_dumps
    /\ idx' = idx + 1
    /\ UNCHANGED <<inputs, now, pc, content, m, real_msgs, cats, user_turns, anomalies,
                   error_categories, wall_clock_hrs, walk, ret>>

(* line 245 *)
SortSiblings ==
    /\ pc = "siblings"
    /\ idx > Len(dump_dir)
    /\ sibling_dumps' = SortByTime(sibling_dumps)
    /\ pc' = "timeline"
    /\ UNCHANGED <<inputs, now, idx, content, m, real_msgs, cats, user_turns, anomalies,
                   error_categories, wall_clock_hrs, walk, ret>>

(* lines 248-255 *)
StartWalk ==
    /\ pc = "timeline"
    /\ Len(sibling_dumps) >= 2
    /\ wall_clock_hrs' = sibling_dumps[Len(sibling_dumps)].time - sibling_dumps[1].time
    /\ walk' = WalkStart(sibling_dumps[1])
    /\ idx' = 2
    /\ pc' = "walk"
    /\ UNCHANGED <<inputs, now, content, m, real_msgs, cats, user_turns, anomalies,
                   error_categories, sibling_dumps, ret>>

(* lines 257-268, one entry of sibling_dumps[1:] *)
WalkEntry ==
    /\ pc = "walk"
    /\ idx <= Len(sibling_dumps)
    /\ walk' = WalkStep(walk, sibling_dumps[idx])
    /\ idx' = idx + 1
    /\ UNCHANGED <<inputs, now, pc, content, m, real_msgs, cats, user_turns, anomalies,
                   error_categories, sibling_dumps, wall_clock_hrs, ret>>

(* lines 269-275 *)
FinishWalk ==
    /\ pc = "walk"
    /\ idx > Len(sibling_dumps)
    /\ m' = TimelineMetrics(m, sibling_dumps, wall_clock_hrs, walk)
    /\ pc' = "focus"
    /\ UNCHANGED <<inputs, now, idx, content, real_msgs, cats, user_turns, anomalies,
                   error_categories, sibling_dumps, wall_clock_hrs, walk, ret>>

(* lines 276-281 *)
NoTimeline ==
    /\ pc = "timeline"
    /\ Len(sibling_dumps) < 2
    /\ m' = NoTimelineMetrics(m)
    /\ pc' = "focus"
    /\ UNCHANGED <<inputs, now, idx, content, real_msgs, cats, user_turns, anomalies,
                   error_categories, sibling_dumps, wall_clock_hrs, walk, ret>>

(* line 291: the record goes to the caller and the frame is gone; the clock *)
(* has moved on by the time the call returns                                *)
Return ==
    /\ pc = "focus"
    /\ ret' = Append(ret, m)
    /\ now' = now + 1
    /\ pc' = "idle"
    /\ idx' = 0
    /\ content' = <<>>
    /\ m' = EmptyDict
    /\ real_msgs' = <<>>
    /\ cats' = EmptyDict
    /\ user_turns' = <<>>
    /\ anomalies' = NoAnomalies
    /\ error_categories' = EmptyDict
    /\ sibling_dumps' = <<>>
    /\ wall_clock_hrs' = 0
    /\ walk' = WalkStart([time |-> 0])
    /\ UNCHANGED inputs

Next ==
    \/ Analyze
    \/ RawCounts
    \/ ExtractMessages
    \/ CategorizeMessage
    \/ SplitTurns
    \/ DisambiguateTurn
    \/ StoreAnomalies
    \/ CategorizeError
    \/ Heuristics
    \/ ScanSibling
    \/ SortSiblings
    \/ StartWalk
    \/ WalkEntry
    \/ FinishWalk
    \/ NoTimeline
    \/ Return

Spec == Init /\ [][Next]_vars

SpecTimeline == InitTimeline /\ [][Next]_vars

SpecTwice == InitTwice /\ [][Next]_vars

(***************************************************************************)
(* Properties.  Durations are whole seconds here; the code divides them by *)
(* 60 and 3600 in floating point and rounds what it reports.               *)
(***************************************************************************)
RECURSIVE SumValues(_, _)
SumValues(f, K) ==
    IF K = {} THEN 0
    ELSE LET k == CHOOSE x \in K : TRUE IN f[k] + SumValues(f, K \ {k})

RECURSIVE SumMinutes(_)
SumMinutes(gaps) ==
    IF gaps = <<>> THEN 0 ELSE gaps[1].minutes + SumMinutes(Tail(gaps))

Get(d, k) == IF k \in DOMAIN d THEN d[k] ELSE 0

(* the record is complete: analyze is about to return it *)
Finished == pc = "focus"

(* C1: on a timeline of two or more snapshots the wall-clock span is the   *)
(* time from the first snapshot to the last, the gap time is the sum of the *)
(* recorded gaps, and active time plus gap time is the wall-clock span.     *)
C1_ActivePlusGapIsWallClock ==
    (Finished /\ Len(sibling_dumps) >= 2) =>
        /\ m["wall_clock_hours"] =
               Some(sibling_dumps[Len(sibling_dumps)].time - sibling_dumps[1].time)
        /\ m["gap_hours"] = Some(SumMinutes(m["gaps"]))
        /\ m["active_hours"][1] + m["gap_hours"][1] = m["wall_clock_hours"][1]

(* three snapshots, an active stretch and then a gap *)
C1_Witness ==
    /\ Finished
    /\ Len(sibling_dumps) = 3
    /\ Len(m["gaps"]) = 1
    /\ m["active_hours"][1] > 0
    /\ m["gap_hours"][1] > 0

(* C2: a turn recorded as a tool error is recorded neither as a correction *)
(* nor as a clarification, at every point of the loop over the turns.      *)
C2_ToolErrorIsExclusive ==
    \A e \in 1..Len(anomalies.tool_errors) :
        /\ \A c \in 1..Len(anomalies.user_corrections) :
               anomalies.user_corrections[c].turn # anomalies.tool_errors[e].turn
        /\ \A c \in 1..Len(anomalies.user_clarifications) :
               anomalies.user_clarifications[c].turn # anomalies.tool_errors[e].turn

(* a tool-error turn whose quoted text reads as a correction, beside a turn *)
(* recorded both as a correction and as a clarification                     *)
C2_Witness ==
    /\ Finished
    /\ \E e \in 1..Len(anomalies.tool_errors) :
           IsCorrection(UserText(user_turns[anomalies.tool_errors[e].turn + 1]))
    /\ \E c \in 1..Len(anomalies.user_corrections) :
           \E d \in 1..Len(anomalies.user_clarifications) :
               anomalies.user_corrections[c].turn = anomalies.user_clarifications[d].turn

(* C3: the number of user text messages is at most the number of raw user  *)
(* section headers.                                                         *)
C3_RealAtMostRaw ==
    "real_user_msgs" \in DOMAIN m => m["real_user_msgs"] <= m["raw_user_sections"]

(* C4: the category histogram has exactly the five categories, while the   *)
(* messages are counted its sum is the number of messages counted so far,  *)
(* and in the record its sum is the number of user text messages.          *)
C4_EveryMessageInOneCategory ==
    /\ pc = "cats" =>
           /\ DOMAIN cats = CategoryKeys
           /\ SumValues(cats, CategoryKeys) = idx - 1
    /\ "msg_categories" \in DOMAIN m =>
           /\ DOMAIN m["msg_categories"] = CategoryKeys
           /\ SumValues(m["msg_categories"], CategoryKeys) = m["real_user_msgs"]
           /\ m["real_user_msgs"] = Len(m["user_messages"])

(* two messages counted, one of them holding words of two categories *)
C4_Witness ==
    /\ "msg_categories" \in DOMAIN m
    /\ m["real_user_msgs"] = 2
    /\ \E i \in 1..2 :
           /\ AnyIn(GUIDANCE_WORDS, LowerAll(real_msgs[i]))
           /\ AnyIn(APPROVAL_WORDS, LowerAll(real_msgs[i]))
    /\ m["msg_categories"]["other"] = 1

(* a sibling counts for the timeline: its header names the session of the  *)
(* primary dump (both cut to eight characters) and a time in one of the    *)
(* known formats, with a known zone abbreviation or none                   *)
CountsForTimeline(sibling) ==
    /\ sibling.session # None
    /\ file.session # None
    /\ Slice(sibling.session[1], 8) = Slice(file.session[1], 8)
    /\ sibling.dumped # None
    /\ sibling.dumped[1].fmt \in {FORMATS[k] : k \in 1..Len(FORMATS)}
    /\ sibling.dumped[1].tz \in TZ_ABBREVIATIONS \cup {""}

TimelineSiblings == {k \in 1..Len(dump_dir) : CountsForTimeline(dump_dir[k])}

(* C5: with fewer than two siblings that count for the timeline, the call  *)
(* goes on to its end and the wall-clock span, the active time, the gap    *)
(* time and the growth ratio are the missing value, the gaps an empty list.*)
C5_FewSnapshotsNoTimeline ==
    Cardinality(TimelineSiblings) < 2 =>
        /\ pc # "walk"
        /\ pc = "timeline" => Len(sibling_dumps) < 2
        /\ Finished =>
               /\ m["wall_clock_hours"] = None
               /\ m["active_hours"] = None
               /\ m["gap_hours"] = None
               /\ m["growth_ratio"] = None
               /\ m["gaps"] = <<>>

(* a directory of three files of which one counts for the timeline *)
C5_Witness ==
    /\ Finished
    /\ Len(dump_dir) = 3
    /\ Cardinality(TimelineSiblings) = 1
    /\ \E k \in 1..Len(dump_dir) :
           /\ dump_dir[k].dumped # None
           /\ dump_dir[k].dumped[1].tz \notin TZ_ABBREVIATIONS \cup {""}
    /\ m["wall_clock_hours"] = None

(* the adjacent pairs of a timeline that are more than an hour apart *)
FarApart(d) == {k \in 1..(Len(d) - 1) : d[k + 1].time - d[k].time > 60 * 60}

(* the i-th pair of FarApart(d), in the order of the timeline *)
Kth(P, i) == CHOOSE k \in P : Cardinality({j \in P : j < k}) = i - 1

GapTag(seconds) ==
    IF seconds > 360 * 60 THEN "OVERNIGHT"
    ELSE IF seconds > 120 * 60 THEN "LONG BREAK"
    ELSE "BREAK"

(* C6: the timeline is in order of time; the recorded gaps are, in that    *)
(* order, the adjacent pairs of snapshots more than 60 minutes apart, each *)
(* with its two snapshots' times and its distance, tagged OVERNIGHT above  *)
(* 360 minutes, LONG BREAK above 120 minutes up to 360, BREAK above 60 up  *)
(* to 120; a gap ends no later than the next one starts.                   *)
C6_GapsAreTheLongPairs ==
    (Finished /\ Len(sibling_dumps) >= 2) =>
        LET d == sibling_dumps
            gaps == m["gaps"]
            P == FarApart(d)
        IN /\ \A k \in 1..(Len(d) - 1) : d[k].time <= d[k + 1].time
           /\ Len(gaps) = Cardinality(P)
           /\ \A i \in 1..Len(gaps) :
                  LET k == Kth(P, i)
                  IN /\ gaps[i].start = d[k].time
                     /\ gaps[i].end = d[k + 1].time
                     /\ gaps[i].minutes = d[k + 1].time - d[k].time
                     /\ gaps[i].type = GapTag(gaps[i].minutes)
           /\ \A i \in 1..(Len(gaps) - 1) : gaps[i].end <= gaps[i + 1].start

(* a gap of exactly 120 minutes and then one of more than 360 *)
C6_Witness ==
    /\ Finished
    /\ Len(sibling_dumps) = 3
    /\ Len(m["gaps"]) = 2
    /\ m["gaps"][1].minutes = 120 * 60
    /\ m["gaps"][1].type = "BREAK"
    /\ m["gaps"][2].type = "OVERNIGHT"

(* the rules of the categories in their order of priority *)
CategoryNames == <<"guidance", "approval", "corrections", "questions", "other">>

RuleMatches(r, msg) ==
    CASE r = 1 -> AnyIn(GUIDANCE_WORDS, LowerAll(msg))
      [] r = 2 -> AnyIn(APPROVAL_WORDS, LowerAll(msg))
      [] r = 3 -> AnyIn(CORRECTION_CATEGORY_WORDS, LowerAll(msg))
      [] r = 4 -> HasLit(msg, <<"?">>)
      [] OTHER -> TRUE

FirstRule(msg) == CategoryNames[Min({r \in 1..Len(CategoryNames) : RuleMatches(r, msg)})]

(* C7: the count of a category is the number of messages whose first       *)
(* matching rule, in the order guidance, approval, corrections, questions, *)
(* other, is that category: while the messages are counted, of those       *)
(* counted so far, and in the record, of all of them.                      *)
C7_FirstMatchingRule ==
    /\ pc = "cats" =>
           \A c \in CategoryKeys :
               cats[c] = Cardinality({i \in 1..(idx - 1) : FirstRule(real_msgs[i]) = c})
    /\ "msg_categories" \in DOMAIN m =>
           \A c \in CategoryKeys :
               m["msg_categories"][c] =
                   Cardinality({i \in 1..Len(real_msgs) : FirstRule(real_msgs[i]) = c})

(* a message with a guidance word and an approval word counted as guidance *)
(* only, beside a question                                                  *)
C7_Witness ==
    /\ "msg_categories" \in DOMAIN m
    /\ \E i \in 1..Len(real_msgs) : RuleMatches(1, real_msgs[i]) /\ RuleMatches(2, real_msgs[i])
    /\ m["msg_categories"]["guidance"] = 1
    /\ m["msg_categories"]["approval"] = 0
    /\ m["msg_categories"]["questions"] = 1

(* the turns whose body holds the error flag and the psql text *)
FlaggedPsqlTurns ==
    {i \in 1..(Len(user_turns) - 1) :
        /\ \E k \in 1..Len(user_turns[i + 1]) : user_turns[i + 1][k] = IS_ERROR
        /\ HasLit(user_turns[i + 1], <<"psql", ": ", "error:">>)}

(* C8: a turn whose body holds the flag "is_error": true and the text      *)
(* psql: error: is one tool error of the category Database Connection, and *)
(* is neither a correction nor a clarification, wherever the flag stands.  *)
C8_FlaggedPsqlIsDatabaseConnection ==
    Finished =>
        /\ \A i \in FlaggedPsqlTurns :
               /\ Cardinality({e \in 1..Len(m["tool_error_details"]) :
                                  m["tool_error_details"][e].turn = i}) = 1
               /\ \A e \in 1..Len(m["tool_error_details"]) :
                      m["tool_error_details"][e].turn = i =>
                          ErrorCategory(m["tool_error_details"][e].error)
                              = "Database Connection"
               /\ \A c \in 1..Len(anomalies.user_corrections) :
                      anomalies.user_corrections[c].turn # i
               /\ \A c \in 1..Len(anomalies.user_clarifications) :
                      anomalies.user_clarifications[c].turn # i
        /\ Get(m["error_categories"], "Database Connection")
               >= Cardinality(FlaggedPsqlTurns)

PlainTextTurn(turn) ==
    /\ Len(turn) >= 3
    /\ SubSeq(turn, 1, 3) = <<LB, LC, TYPE_TEXT>>
    /\ \A k \in 1..Len(turn) : turn[k] # IDE_OPENED

(* C10: only a turn whose body starts with a fragment typed as text and    *)
(* holds no marker of an opened file gives a message: there are no more    *)
(* messages than such turns, and every message is the text of one of them. *)
C10_MessagesOnlyFromPlainTextTurns ==
    "real_user_msgs" \in DOMAIN m =>
        LET turns == Tail(SplitUser(content))
            plain == {i \in 1..Len(turns) : PlainTextTurn(turns[i])}
        IN /\ m["real_user_msgs"] <= Cardinality(plain)
           /\ \A j \in 1..Len(real_msgs) :
                  \E i \in plain : UserText(turns[i]) = real_msgs[j]

(* the snippet a tool-error turn is to be recorded with: the content field *)
(* that follows the error flag, newlines collapsed and cut to 100          *)
(* characters, or else the text at the first signature of the table that   *)
(* the turn matches                                                         *)
ExpectedSnippet(turn) ==
    IF HasToolError(turn) /\ ErrorContent(turn) # None
    THEN Slice(ReplaceEscNl(ErrorContent(turn)[1]), 100)
    ELSE FirstPatSnippet(turn)

(* C11: the snippet recorded for a tool-error turn is the flagged content  *)
(* field when the turn has one, and otherwise, also when the flag is there *)
(* without a content field after it, the text at the first signature, in   *)
(* table order, that the turn matches; it is of bounded length.            *)
C11_SnippetIsContentOrFirstSignature ==
    Finished =>
        \A e \in 1..Len(m["tool_error_details"]) :
            LET d == m["tool_error_details"][e]
            IN /\ d.error = ExpectedSnippet(user_turns[d.turn + 1])
               /\ CharLen(d.error) <= 200
====
